---- MODULE Spec2Model ----
(***************************************************************************)
(* Model of transformer.py: CSV time series -> SAREF RDF graph.            *)
(*                                                                         *)
(* Strings are sequences of one-character strings, so that the regular     *)
(* expressions, the sanitisation, the split/strip of the interpolation     *)
(* marker and the f-string concatenations are computed as the code         *)
(* computes them.  A URI is the sequence <<namespace, local prefix>> \o    *)
(* characters; an rdflib Graph is a set of <<subject, predicate, object>>. *)
(***************************************************************************)
EXTENDS Integers, Sequences, FiniteSets, TLC

----------------------------------------------------------------------------
(* Character classes of the regular expressions.                           *)

LowerLetters ==
    {"a", "b", "c", "d", "e", "i", "k", "l", "m", "n", "o", "p", "r", "s", "t",
     "u", "x"}
UpperLetters == {"D", "E", "K", "N"}
Letters == LowerLetters \cup UpperLetters
Digits == {"1", "2"}

IsLetter(ch) == ch \in Letters
IsDigit(ch) == ch \in Digits
\* [a-zA-Z0-9_]
IsSafe(ch) == IsLetter(ch) \/ IsDigit(ch) \/ ch = "_"

\* the literal prefix of the three patterns
DE_KN == <<"D", "E", "_", "K", "N", "_">>

HasPrefix(s, p) == Len(s) >= Len(p) /\ SubSeq(s, 1, Len(p)) = p

Drop(s, n) == SubSeq(s, n + 1, Len(s))

Range(s) == {s[i] : i \in 1..Len(s)}

\* length of the longest run of characters of class Cls at the head of s
RECURSIVE RunLen(_, _)
RunLen(s, Cls) ==
    IF s # <<>> /\ Head(s) \in Cls THEN 1 + RunLen(Tail(s), Cls) ELSE 0

----------------------------------------------------------------------------
(* Helper functions (Identifier Deriver).                                  *)

EX == <<"http://example.com/">>
EXDATA == <<"http://example.com/data/">>

\* re.sub(r'[^a-zA-Z0-9_]', '_', text)
SubUnsafe(text) ==
    [i \in 1..Len(text) |-> IF IsSafe(text[i]) THEN text[i] ELSE "_"]

\* re.sub(r'^DE_KN_', '', text), then SubUnsafe
sanitize_for_uri(text) ==
    SubUnsafe(IF HasPrefix(text, DE_KN) THEN Drop(text, Len(DE_KN)) ELSE text)

LocationTokenUnderscoreOnly(column_name) ==
    IF ~HasPrefix(column_name, DE_KN) THEN <<>>
    ELSE LET rest == Drop(column_name, Len(DE_KN))
             nl == RunLen(rest, Letters)
             nd == RunLen(Drop(rest, nl), Digits)
             after == Drop(rest, nl + nd)
         IN  IF nl >= 1 /\ nd >= 1 /\ after # <<>> /\ Head(after) = "_"
             THEN SubSeq(rest, 1, nl + nd)
             ELSE <<>>

\* re.match(r"DE_KN_([a-zA-Z]+[0-9]+)(_|$)", column_name): the greedy letter
\* and digit runs are maximal, as a shorter run is followed by a character of
\* its own class.  The result is group(1), or <<>> when there is no match
\* (group(1) is never empty).
LocationToken(column_name) ==
    IF ~HasPrefix(column_name, DE_KN) THEN <<>>
    ELSE LET rest == Drop(column_name, Len(DE_KN))
             nl == RunLen(rest, Letters)
             nd == RunLen(Drop(rest, nl), Digits)
             after == Drop(rest, nl + nd)
         IN  IF nl >= 1 /\ nd >= 1 /\ (after = <<>> \/ Head(after) = "_")
             THEN SubSeq(rest, 1, nl + nd)
             ELSE <<>>

None == <<"None">>

get_feature_of_interest_uri(column_name) ==
    IF LocationToken(column_name) # <<>>
    THEN EXDATA \o <<"Location_">> \o LocationToken(column_name)
    ELSE None

get_sensor_uri(column_name) ==
    EXDATA \o <<"Sensor_">> \o sanitize_for_uri(column_name)

\* re.match(r"DE_KN_[a-zA-Z]+[0-9]+_(.+)", column_name): group(1), or <<>>
\* when there is no match (.+ needs one character at least).
PropertySuffix(column_name) ==
    IF ~HasPrefix(column_name, DE_KN) THEN <<>>
    ELSE LET rest == Drop(column_name, Len(DE_KN))
             nl == RunLen(rest, Letters)
             nd == RunLen(Drop(rest, nl), Digits)
             after == Drop(rest, nl + nd)
         IN  IF nl >= 1 /\ nd >= 1 /\ Len(after) >= 2 /\ Head(after) = "_"
             THEN Tail(after)
             ELSE <<>>

get_property_uri(column_name) ==
    LET prop_name == IF PropertySuffix(column_name) # <<>>
                     THEN sanitize_for_uri(PropertySuffix(column_name))
                     ELSE sanitize_for_uri(column_name)
    IN  EX \o <<"Property_">> \o prop_name

----------------------------------------------------------------------------
(* Cells of the table as pandas hands them over: a missing value, a float  *)
(* or a string.                                                            *)

NaN == <<"NaN">>
Float(v) == <<"float", v>>
Str(s) == <<"str", s>>
IsStr(cell) == cell[1] = "str"

\* pd.notna
notna(cell) == cell # NaN

\* str.lower
LowerChar(ch) ==
    CASE ch = "D" -> "d" [] ch = "E" -> "e" [] ch = "K" -> "k" [] ch = "N" -> "n"
      [] OTHER -> ch
lower(s) == [i \in 1..Len(s) |-> LowerChar(s[i])]

\* str.strip
RECURSIVE lstrip(_)
lstrip(s) == IF s # <<>> /\ Head(s) = " " THEN lstrip(Tail(s)) ELSE s
RECURSIVE rstrip(_)
rstrip(s) ==
    IF s # <<>> /\ s[Len(s)] = " " THEN rstrip(SubSeq(s, 1, Len(s) - 1)) ELSE s
strip(s) == lstrip(rstrip(s))

\* str.split(sep): the sequence of the pieces between the separators
RECURSIVE split(_, _)
split(s, sep) ==
    LET n == RunLen(s, {ch \in Range(s) : ch # sep})
    IN  IF n = Len(s) THEN <<s>>
        ELSE <<SubSeq(s, 1, n)>> \o split(Drop(s, n + 1), sep)

\* float(value) of a string: optional blanks around a decimal number; every
\* other string raises ValueError.  <<TRUE, v>> or <<FALSE, 0>>.
DigitValue(ch) == IF ch = "1" THEN 1 ELSE 2
RECURSIVE Decimal(_)
Decimal(s) ==
    IF s = <<>> THEN 0
    ELSE 10 * Decimal(SubSeq(s, 1, Len(s) - 1)) + DigitValue(s[Len(s)])
ParseFloat(s) ==
    LET t == strip(s)
    IN  IF t # <<>> /\ RunLen(t, Digits) = Len(t)
        THEN <<TRUE, Decimal(t)>> ELSE <<FALSE, 0>>

\* float(value) for a cell that is not missing
float(cell) == IF IsStr(cell) THEN ParseFloat(cell[2]) ELSE <<TRUE, cell[2]>>

----------------------------------------------------------------------------
(* RDF terms.                                                              *)

RDF_type == "rdf:type"
RDFS_label == "rdfs:label"
measuresProperty == "saref:measuresProperty"
hasTimestamp == "saref:hasTimestamp"
hasValue == "saref:hasValue"
madeBySensor == "saref:madeBySensor"
relatesToProperty == "saref:relatesToProperty"
isAbout == "saref:isAbout"
SarefSensor == "saref:Sensor"
SarefProperty == "saref:Property"
SarefFeatureOfInterest == "saref:FeatureOfInterest"
SarefObservation == "saref:Observation"

Literal(value, datatype) == <<"Literal", datatype, value>>

----------------------------------------------------------------------------
(* Inputs.                                                                 *)

utc_timestamp ==
    <<"u", "t", "c", "_", "t", "i", "m", "e", "s", "t", "a", "m", "p">>
cet_cest_timestamp ==
    <<"c", "e", "t", "_", "c", "e", "s", "t", "_", "t", "i", "m", "e", "s", "t",
      "a", "m", "p">>
interpolated ==
    <<"i", "n", "t", "e", "r", "p", "o", "l", "a", "t", "e", "d">>

\* the column names the headers are made of
Col_a1_x == DE_KN \o <<"a", "1", "_", "x">>
Col_b2_x == DE_KN \o <<"b", "2", "_", "x">>
Col_a1 == DE_KN \o <<"a", "1">>
Col_plain_a1_x == <<"a", "1", "_", "x">>
Col_n_dash == <<"n", "_", "-">>
Col_n_dot == <<"n", "_", ".">>
Col_ab == <<"a", "b">>

\* the headers a run may read (df_header.columns.tolist()): one column; one
\* column with the fallback names; two sensors of one property; two columns
\* of one Sensor identity; no measurement column; no utc_timestamp column
Headers ==
    { <<utc_timestamp, interpolated, Col_a1_x>>,
      <<utc_timestamp, interpolated, Col_n_dash>>,
      <<utc_timestamp, interpolated, Col_a1_x, Col_b2_x>>,
      <<utc_timestamp, interpolated, Col_a1_x, Col_plain_a1_x>>,
      <<utc_timestamp, cet_cest_timestamp, interpolated, Col_ab>>,
      <<interpolated, Col_a1_x>> }

\* the table has at most MaxRows rows
MaxRows == 2

\* the strings of the utc_timestamp column
Timestamps == { <<"1">>, <<"2">> }

\* the values of a measurement cell: missing, a float, a string that float()
\* parses, a string it rejects
Cells == { NaN, Float(1), Str(<<"2">>), Str(<<"x">>) }

\* s1 | s2 | ... with a blank before every name and before every separator
RECURSIVE JoinPipe(_)
JoinPipe(names) ==
    IF Len(names) = 0 THEN <<>>
    ELSE IF Len(names) = 1 THEN <<" ">> \o names[1]
    ELSE <<" ">> \o names[1] \o <<" ", "|">> \o JoinPipe(Tail(names))

\* the values of the 'interpolated' cell in a table with measurement columns
\* cols: missing, a spelling of the sentinel that read_csv leaves a string, a
\* number, the first column, all the columns
Markers(cols) ==
    { NaN, Str(<<"N", "a", "n">>), Float(1) } \cup
    (IF cols = <<>> THEN {} ELSE { Str(cols[1]), Str(JoinPipe(cols)) })

\* where an unexpected error (a MemoryError, say) is raised inside the column
\* loop of a row: nowhere, or while the last column is handled.  The rows it
\* is raised in are rows whose marker is missing or names the first column.
NoError == <<"none", 0>>
ErrorAtColumn(k) == <<"column", k>>
ErrorPoints(cols, marker) ==
    {NoError} \cup
    (IF cols # <<>> /\ marker \in {NaN, Str(cols[1])}
     THEN {ErrorAtColumn(Len(cols))} ELSE {})

----------------------------------------------------------------------------
VARIABLES
    pc,                 \* "registry", "rows", "done"
    all_columns,        \* the header
    measurement_columns,
    col_index,          \* columns the registry loop has handled
    g,                  \* the graph: a set of triples
    defined_sensors, defined_properties, defined_fois,
    n_rows,             \* len(df)
    index,              \* rows the row loop has handled
    row,                \* the row handled last
    interpolated_sensors_in_row,
    previous_exclusion, \* interpolated_sensors_in_row as the row before left it
    skipped,            \* columns of row for which line 116 ran
    emitted,            \* columns of row for which lines 130-136 ran
    row_failed,         \* whether line 142 ran for row
    serialize_calls,    \* calls of g.serialize
    serialize_raised,   \* whether g.serialize raised
    exit_status         \* "running", or the status the process ended with

vars == <<pc, all_columns, measurement_columns, col_index, g, defined_sensors,
          defined_properties, defined_fois, n_rows, index, row,
          interpolated_sensors_in_row, previous_exclusion, skipped, emitted,
          row_failed, serialize_calls, serialize_raised, exit_status>>

end_vars == <<serialize_calls, serialize_raised, exit_status>>
registry_vars == <<g, defined_sensors, defined_properties, defined_fois>>
row_vars == <<index, row, interpolated_sensors_in_row, previous_exclusion,
              skipped, emitted, row_failed>>

\* line 64
IsMeasurementColumn(col) ==
    /\ "_" \in Range(col)
    /\ col \notin {utc_timestamp, cet_cest_timestamp, interpolated}

NoRow == [utc_timestamp |-> <<>>, interpolated |-> NaN, cells |-> <<>>,
          error |-> NoError]

\* lines 49-69
Start(header) ==
    /\ pc = "registry"
    /\ all_columns = header
    /\ measurement_columns = SelectSeq(header, IsMeasurementColumn)
    /\ col_index = 0
    /\ g = {}
    /\ defined_sensors = {}
    /\ defined_properties = {}
    /\ defined_fois = {}
    /\ n_rows = 0
    /\ index = 0
    /\ row = NoRow
    /\ interpolated_sensors_in_row = {}
    /\ previous_exclusion = {}
    /\ skipped = {}
    /\ emitted = {}
    /\ row_failed = FALSE
    /\ serialize_calls = 0
    /\ serialize_raised = FALSE
    /\ exit_status = "running"

Init == \E header \in Headers : Start(header)

----------------------------------------------------------------------------
(* Entity registry, lines 72-94.                                           *)

SensorTriples(col) ==
    { <<get_sensor_uri(col), RDF_type, SarefSensor>>,
      <<get_sensor_uri(col), RDFS_label,
        Literal(<<"Sensor for ">> \o col, "plain")>>,
      <<get_sensor_uri(col), measuresProperty, get_property_uri(col)>> }

PropertyTriples(col) ==
    { <<get_property_uri(col), RDF_type, SarefProperty>>,
      <<get_property_uri(col), RDFS_label,
        Literal(<<"Property measured by ">> \o col, "plain")>> }

\* foi_uri.split('/')[-1].replace('Location_', '').replace('_', ' '): the
\* last piece of the URI is Location_ and the location token, and the token
\* has no underscore
foi_label(foi_uri) == Drop(foi_uri, Len(EXDATA) + 1)

FoiTriples(foi_uri) ==
    { <<foi_uri, RDF_type, SarefFeatureOfInterest>>,
      <<foi_uri, RDFS_label,
        Literal(<<"Location ">> \o foi_label(foi_uri), "plain")>> }

SensorDeclarationUnguarded(col, seen) == SensorTriples(col)

\* lines 77-82
SensorDeclaration(col, seen) ==
    IF get_sensor_uri(col) \notin seen THEN SensorTriples(col) ELSE {}

\* lines 84-87
PropertyDeclaration(col, seen) ==
    IF get_property_uri(col) \notin seen THEN PropertyTriples(col) ELSE {}

\* lines 89-94
FoiDeclaration(col, seen) ==
    LET foi_uri == get_feature_of_interest_uri(col)
    IN  IF foi_uri # None /\ foi_uri \notin seen THEN FoiTriples(foi_uri) ELSE {}

\* one turn of the loop of line 72
RegisterColumn ==
    /\ pc = "registry"
    /\ col_index < Len(measurement_columns)
    /\ LET col == measurement_columns[col_index + 1]
           foi_uri == get_feature_of_interest_uri(col)
       IN  /\ g' = g \cup SensorDeclaration(col, defined_sensors)
                     \cup PropertyDeclaration(col, defined_properties)
                     \cup FoiDeclaration(col, defined_fois)
           /\ defined_sensors' = defined_sensors \cup {get_sensor_uri(col)}
           /\ defined_properties' = defined_properties \cup {get_property_uri(col)}
           /\ defined_fois' = IF foi_uri # None THEN defined_fois \cup {foi_uri}
                              ELSE defined_fois
    /\ col_index' = col_index + 1
    /\ UNCHANGED <<pc, all_columns, measurement_columns, n_rows, row_vars,
                   end_vars>>

\* line 98, df = pd.read_csv(csv_filepath), once the loop of line 72 is over
ReadTable ==
    /\ pc = "registry"
    /\ col_index = Len(measurement_columns)
    /\ \E n \in 0..MaxRows : n_rows' = n
    /\ pc' = "rows"
    /\ UNCHANGED <<all_columns, measurement_columns, col_index, registry_vars,
                   row_vars, end_vars>>

----------------------------------------------------------------------------
(* Row materializer, lines 100-143.                                        *)

\* row['utc_timestamp'] raises KeyError in a table without that column
TimestampFails(header) == utc_timestamp \notin Range(header)

\* line 107 raises: KeyError in a table without the column, AttributeError
\* for .lower() of a cell that is present and no string
MarkerFails(header, r) ==
    \/ interpolated \notin Range(header)
    \/ notna(r.interpolated) /\ ~IsStr(r.interpolated)

\* lines 106-110
InterpolatedSensors(marker) ==
    IF notna(marker) /\ lower(marker[2]) # <<"n", "a", "n">>
    THEN { get_sensor_uri(strip(icol)) : icol \in Range(split(marker[2], "|")) }
    ELSE {}

ExclusionSetNotReset(header, r, previous) ==
    IF TimestampFails(header) THEN previous
    ELSE IF MarkerFails(header, r) THEN previous
    ELSE previous \cup InterpolatedSensors(r.interpolated)

\* interpolated_sensors_in_row once row r has been handled; previous is its
\* value before
ExclusionSet(header, r, previous) ==
    IF TimestampFails(header) THEN previous
    ELSE IF MarkerFails(header, r) THEN {}
    ELSE InterpolatedSensors(r.interpolated)

\* whether line 142 runs for r
RowFails(header, r) ==
    TimestampFails(header) \/ MarkerFails(header, r) \/ r.error # NoError

\* the columns the loop of line 112 handles before an error ends the row
ColumnsHandled(header, r, cols) ==
    IF TimestampFails(header) \/ MarkerFails(header, r) THEN {}
    ELSE IF r.error # NoError THEN 1..(r.error[2] - 1)
    ELSE 1..Len(cols)

\* the columns for which line 116 runs
SkippedColumns(handled, cols, exclusion) ==
    { j \in handled : get_sensor_uri(cols[j]) \in exclusion }

EmittedColumnsNoValueError(candidates, r) ==
    { j \in candidates : notna(r.cells[j]) }

\* the columns for which lines 130-136 run, among the columns that line 116
\* did not skip
EmittedColumns(candidates, r) ==
    { j \in candidates : notna(r.cells[j]) /\ float(r.cells[j])[1] }

\* line 127
ObservationUri(col, timestamp_str) ==
    EXDATA \o <<"Observation_">> \o sanitize_for_uri(col) \o <<"_">>
           \o timestamp_str

ObservationTriplesDeclareSensor(col, timestamp_str, numeric_value) ==
    LET obs_uri == ObservationUri(col, timestamp_str)
    IN  { <<obs_uri, RDF_type, SarefObservation>>,
          <<obs_uri, hasTimestamp, Literal(timestamp_str, "xsd:dateTime")>>,
          <<obs_uri, hasValue, Literal(numeric_value, "xsd:float")>>,
          <<obs_uri, madeBySensor, get_sensor_uri(col)>>,
          <<obs_uri, relatesToProperty, get_property_uri(col)>>,
          <<get_sensor_uri(col), RDFS_label,
            Literal(<<"Sensor for ">> \o col \o <<" at ">> \o timestamp_str,
                    "plain")>> }

\* lines 121-136
ObservationTriples(col, timestamp_str, numeric_value) ==
    LET obs_uri == ObservationUri(col, timestamp_str)
        foi_uri == get_feature_of_interest_uri(col)
    IN  { <<obs_uri, RDF_type, SarefObservation>>,
          <<obs_uri, hasTimestamp, Literal(timestamp_str, "xsd:dateTime")>>,
          <<obs_uri, hasValue, Literal(numeric_value, "xsd:float")>>,
          <<obs_uri, madeBySensor, get_sensor_uri(col)>>,
          <<obs_uri, relatesToProperty, get_property_uri(col)>> }
        \cup (IF foi_uri # None THEN { <<obs_uri, isAbout, foi_uri>> } ELSE {})

\* the timestamps are compared for equality only, so the first row has the
\* first of them; a table without the column has none
TimestampChoices(header, i) ==
    IF TimestampFails(header) THEN { <<>> }
    ELSE IF i = 0 THEN { <<"1">> }
    ELSE Timestamps

MarkerChoices(header, cols) ==
    IF interpolated \in Range(header) THEN Markers(cols) ELSE { NaN }

\* one turn of the loop of line 100, with its try and except
ProcessRow ==
    /\ pc = "rows"
    /\ index < n_rows
    /\ \E marker \in MarkerChoices(all_columns, measurement_columns) :
       \E error \in ErrorPoints(measurement_columns, marker) :
       \E exclusion \in { ExclusionSet(all_columns,
                                       [interpolated |-> marker, error |-> error],
                                       interpolated_sensors_in_row) } :
       \E handled \in { ColumnsHandled(all_columns,
                                       [interpolated |-> marker, error |-> error],
                                       measurement_columns) } :
       \E skips \in { SkippedColumns(handled, measurement_columns, exclusion) } :
       \E timestamp_str \in TimestampChoices(all_columns, index) :
       \E cells \in [1..Len(measurement_columns) -> Cells] :
         LET r == [utc_timestamp |-> timestamp_str, interpolated |-> marker,
                   cells |-> cells, error |-> error]
             emits == EmittedColumns(handled \ skips, r)
         IN  /\ row' = r
             /\ interpolated_sensors_in_row' = exclusion
             /\ skipped' = skips
             /\ emitted' = emits
             /\ row_failed' = RowFails(all_columns, r)
             /\ g' = g \cup UNION { ObservationTriples(
                                      measurement_columns[j], timestamp_str,
                                      float(cells[j])[2]) : j \in emits }
    /\ previous_exclusion' = interpolated_sensors_in_row
    /\ index' = index + 1
    /\ UNCHANGED <<pc, all_columns, measurement_columns, col_index,
                   defined_sensors, defined_properties, defined_fois, n_rows,
                   end_vars>>

ExitStatusIgnoresFailure(raised) == "0"

\* line 150, sys.exit(1), or the end of the script
ExitStatus(raised) == IF raised THEN "1" ELSE "0"

\* lines 145-150, once the loop of line 100 is over
Serialize ==
    /\ pc = "rows"
    /\ index = n_rows
    /\ \E raised \in BOOLEAN :
         /\ serialize_raised' = raised
         /\ exit_status' = ExitStatus(raised)
    /\ serialize_calls' = serialize_calls + 1
    /\ pc' = "done"
    /\ UNCHANGED <<all_columns, measurement_columns, col_index, registry_vars,
                   n_rows, row_vars>>

Next == RegisterColumn \/ ReadTable \/ ProcessRow \/ Serialize

Spec == Init /\ [][Next]_vars

----------------------------------------------------------------------------
(* The header scan alone, for every header of one name of at most MaxTail  *)
(* characters after an optional DE_KN_, and every header of at most        *)
(* MaxCols of the column names above.                                      *)

MaxTail == 4
MaxCols == 2

TailChars == {"a", "1", "_", "-"}
Tails == UNION { [1..n -> TailChars] : n \in 0..MaxTail }
NameInputs == Tails \cup { DE_KN \o t : t \in Tails }

ColNames ==
    { Col_a1_x, Col_b2_x, Col_a1, Col_plain_a1_x, Col_n_dash, Col_n_dot, Col_ab }

\* read_csv makes the names of a header distinct
ColumnLists ==
    UNION { { cs \in [1..n -> ColNames] :
                \A i, j \in 1..n : i # j => cs[i] # cs[j] } : n \in 0..MaxCols }

RegistryHeaders ==
    { <<utc_timestamp, interpolated, name>> : name \in NameInputs } \cup
    { <<utc_timestamp, interpolated>> \o cs : cs \in ColumnLists }

InitRegistry == \E header \in RegistryHeaders : Start(header)

NextRegistry == RegisterColumn \/ ReadTable

SpecRegistry == InitRegistry /\ [][NextRegistry]_vars

----------------------------------------------------------------------------
(* Properties.                                                             *)

Statements(subject, predicate) ==
    { t \in g : t[1] = subject /\ t[2] = predicate }

IsObservationUri(uri) == uri[1] = EXDATA[1] /\ uri[2] = "Observation_"

Observations == { t[1] : t \in { u \in g : u[2] = RDF_type /\ u[3] = SarefObservation } }

\* the sensor identities a marker cell lists
Listed(marker) == IF IsStr(marker) THEN InterpolatedSensors(marker) ELSE {}

\* whether cell holds a number: present, and float() returns
Parses(cell) == notna(cell) /\ float(cell)[1]

\* C1: once the registry loop has handled a column, its Sensor identity has one
\* type, one label and one measuresProperty statement, and its Property and
\* FeatureOfInterest identities one type and one label statement each, however
\* many columns derive the identity
C1_DedupInvariant ==
    \A k \in 1..col_index :
      LET col == measurement_columns[k]
          sensor_uri == get_sensor_uri(col)
          prop_uri == get_property_uri(col)
          foi_uri == get_feature_of_interest_uri(col)
      IN  /\ Cardinality(Statements(sensor_uri, RDF_type)) = 1
          /\ Cardinality(Statements(sensor_uri, RDFS_label)) = 1
          /\ Cardinality(Statements(sensor_uri, measuresProperty)) = 1
          /\ Cardinality(Statements(prop_uri, RDF_type)) = 1
          /\ Cardinality(Statements(prop_uri, RDFS_label)) = 1
          /\ foi_uri # None =>
               /\ Cardinality(Statements(foi_uri, RDF_type)) = 1
               /\ Cardinality(Statements(foi_uri, RDFS_label)) = 1

\* the registry is over for a header in which two column names derive one
\* Sensor identity
C1_Witness ==
    /\ pc = "rows"
    /\ \E i, j \in 1..Len(measurement_columns) :
         /\ i # j
         /\ get_sensor_uri(measurement_columns[i])
              = get_sensor_uri(measurement_columns[j])

\* DE_KN_<letters><digits>_<rest>, the pattern of get_property_uri: the
\* letters end at position i, the digits at position j
HasPropertyShape(name) ==
    /\ HasPrefix(name, DE_KN)
    /\ \E i, j \in (Len(DE_KN) + 1)..Len(name) :
         /\ i < j
         /\ \A k \in (Len(DE_KN) + 1)..i : IsLetter(name[k])
         /\ \A k \in (i + 1)..j : IsDigit(name[k])
         /\ Len(name) >= j + 2
         /\ name[j + 1] = "_"

\* DE_KN_<letters><digits> and then the end of the name or an underscore, the
\* pattern of get_feature_of_interest_uri
HasLocationShape(name) ==
    /\ HasPrefix(name, DE_KN)
    /\ \E i, j \in (Len(DE_KN) + 1)..Len(name) :
         /\ i < j
         /\ \A k \in (Len(DE_KN) + 1)..i : IsLetter(name[k])
         /\ \A k \in (i + 1)..j : IsDigit(name[k])
         /\ (Len(name) = j \/ name[j + 1] = "_")

FallbackNames(name) ==
    /\ get_property_uri(name) = EX \o <<"Property_">> \o sanitize_for_uri(name)
    /\ get_sensor_uri(name) = EXDATA \o <<"Sensor_">> \o sanitize_for_uri(name)

RowHandled == pc # "registry" /\ index >= 1

\* the Observation of column j of the row handled last, with the value of its
\* cell, is in the graph
HasValueOfCell(j) ==
    <<ObservationUri(measurement_columns[j], row.utc_timestamp), hasValue,
      Literal(float(row.cells[j])[2], "xsd:float")>> \in g

C4_Original == RowHandled /\ row_failed => emitted = {}

\* C2 as stated: the graph has no Observation with the identity of a column
\* the marker of the row lists and the timestamp of the row
C2_Original ==
    RowHandled /\ ~TimestampFails(all_columns) =>
      \A j \in 1..Len(measurement_columns) :
        get_sensor_uri(measurement_columns[j]) \in Listed(row.interpolated) =>
          ObservationUri(measurement_columns[j], row.utc_timestamp)
            \notin Observations

\* C7 as stated: every Observation of the graph has one hasValue, one
\* hasTimestamp, one madeBySensor and one relatesToProperty statement
C7_Original ==
    \A obs_uri \in Observations :
      /\ Cardinality(Statements(obs_uri, hasValue)) = 1
      /\ Cardinality(Statements(obs_uri, hasTimestamp)) = 1
      /\ Cardinality(Statements(obs_uri, madeBySensor)) = 1
      /\ Cardinality(Statements(obs_uri, relatesToProperty)) = 1

\* C10 as stated: the Sensor and the Property of every Observation are
\* declared, and the Sensor is declared to measure that Property
C10_Original ==
    \A obs_uri \in Observations :
      \A s \in Statements(obs_uri, madeBySensor) :
        \A p \in Statements(obs_uri, relatesToProperty) :
          /\ <<s[3], RDF_type, SarefSensor>> \in g
          /\ <<p[3], RDF_type, SarefProperty>> \in g
          /\ <<s[3], measuresProperty, p[3]>> \in g

\* C9: the columns line 116 skips in a row are columns the row's own marker
\* lists, every column it lists is skipped when no error ends the row, and the
\* exclusion set holds the identities of that marker alone, whatever the rows
\* before listed
C9_RowLocalExclusion ==
    RowHandled =>
      /\ \A j \in 1..Len(measurement_columns) :
           LET listed == get_sensor_uri(measurement_columns[j])
                           \in Listed(row.interpolated)
           IN  /\ j \in skipped => listed
               /\ listed /\ ~row_failed => j \in skipped
      /\ ~TimestampFails(all_columns) =>
           interpolated_sensors_in_row = Listed(row.interpolated)

\* the second row emits a column that the first row listed and its own
\* marker does not
C9_Witness ==
    /\ index = 2
    /\ \E j \in emitted :
         /\ get_sensor_uri(measurement_columns[j]) \in previous_exclusion
         /\ get_sensor_uri(measurement_columns[j]) \notin Listed(row.interpolated)

\* C5: until the process ends a step is possible; it ends after one call of
\* g.serialize, made once all the rows have been handled, and its status is
\* not zero exactly if that call raised
C5_ErrorPropagation ==
    /\ pc # "done" => ENABLED Next
    /\ pc # "done" => serialize_calls = 0 /\ exit_status = "running"
    /\ pc = "rows" => index <= n_rows
    /\ pc = "done" =>
         /\ index = n_rows
         /\ serialize_calls = 1
         /\ exit_status \in {"0", "1"}
         /\ exit_status # "0" <=> serialize_raised

\* a run of two rows, the last with an error, a cell that is no number in it,
\* ends with status zero
C5_Witness ==
    /\ pc = "done"
    /\ index = 2
    /\ row_failed
    /\ \E j \in 1..Len(measurement_columns) :
         notna(row.cells[j]) /\ ~Parses(row.cells[j])
    /\ exit_status = "0"

\* whether g holds the declarations of every measurement column
AllDeclared ==
    \A k \in 1..Len(measurement_columns) :
      LET col == measurement_columns[k]
      IN  /\ SensorTriples(col) \cap g # {}
          /\ PropertyTriples(col) \cap g # {}
          /\ get_feature_of_interest_uri(col) # None =>
               FoiTriples(get_feature_of_interest_uri(col)) \cap g # {}

\* C8: the first row is handled with every column handled by the registry and
\* every declaration in the graph; a step that handles a row removes no
\* statement, adds statements about Observations alone and leaves the
\* seen-sets as they are; the declarations and the seen-sets change in the
\* registry phase alone; g.serialize is called when it has not been called and
\* every row has been handled, and nothing follows it
C8_PhaseOrdering ==
    [][ /\ index = 0 /\ index' # index =>
             AllDeclared /\ col_index = Len(measurement_columns)
        /\ index' # index =>
             /\ pc = "rows"
             /\ g \subseteq g'
             /\ \A t \in g' \ g : IsObservationUri(t[1])
             /\ <<defined_sensors, defined_properties, defined_fois>>'
                  = <<defined_sensors, defined_properties, defined_fois>>
        /\ index' = index /\ registry_vars' # registry_vars =>
             index = 0 /\ pc = "registry"
        /\ serialize_calls' # serialize_calls =>
             serialize_calls = 0 /\ index = n_rows /\ g' = g /\ pc' = "done"
        /\ pc # "done" ]_vars

\* g.serialize has been called after two rows that added Observations to a
\* graph with declarations
C8_Witness ==
    /\ pc = "done"
    /\ index = 2
    /\ emitted # {}
    /\ Observations # {}
    /\ defined_sensors # {}

====
